---- MODULE Spec2Model ----
(***************************************************************************)
(* Office-to-Markdown converter (src/app.py): the converter adapter         *)
(* convert_file_to_markdown, the session store st.session_state.conversions *)
(* and the script main(), which Streamlit runs top to bottom on every user  *)
(* interaction (convert click, upload change).                              *)
(*                                                                          *)
(* Python strings are sequences of one-character strings, so that rsplit,   *)
(* lower and slicing are computed and not assumed.  A dict is a sequence of *)
(* [name, text] records with pairwise distinct names, in insertion order.   *)
(***************************************************************************)
EXTENDS Integers, Sequences, FiniteSets, Bags

VARIABLES
    conversions,     \* st.session_state.conversions: the dict, in insertion order
    uploaded_files,  \* the upload widget's current files, in upload order
    pc,              \* position of the script: "Idle", "Converting", "Rendering"
    idx,             \* position of the for loop over uploaded_files (1-based)
    notices,         \* st.error / st.success messages of the current script run
    rendered,        \* the per-entry widgets of the current script run
    tmpdir,          \* bag of the temporary files that exist on disk
    calls,           \* history: the adapter calls of the current script run
    clicks,          \* number of convert clicks so far
    clicked,         \* what st.button returned in the current script run
    fn_in,           \* pure-function harness: the argument
    fn_out,          \* pure-function harness: the result
    fn_done          \* pure-function harness: whether the function was applied

vars == <<conversions, uploaded_files, pc, idx, notices, rendered, tmpdir,
          calls, clicks, clicked, fn_in, fn_out, fn_done>>

appVars == <<conversions, uploaded_files, pc, idx, notices, rendered, tmpdir,
             calls, clicks, clicked>>

fnVars == <<fn_in, fn_out, fn_done>>

-----------------------------------------------------------------------------
(* Bounds of the model.                                                     *)

MaxBatch == 2       \* files in one upload
MaxClicks == 2      \* convert clicks in one session
MaxNameLen == 4     \* length of the filenames of the function harnesses
MaxOver == 2        \* how far past the preview limit the harness texts go

-----------------------------------------------------------------------------
(* Python string primitives.                                                *)

UpperCase ==
    <<"A", "B", "C", "D", "E", "F", "G", "H", "I", "J", "K", "L", "M",
      "N", "O", "P", "Q", "R", "S", "T", "U", "V", "W", "X", "Y", "Z">>

LowerCase ==
    <<"a", "b", "c", "d", "e", "f", "g", "h", "i", "j", "k", "l", "m",
      "n", "o", "p", "q", "r", "s", "t", "u", "v", "w", "x", "y", "z">>

\* str.lower() on one character
lower_char(c) ==
    IF \E k \in 1..Len(UpperCase) : UpperCase[k] = c
    THEN LowerCase[CHOOSE k \in 1..Len(UpperCase) : UpperCase[k] = c]
    ELSE c

\* str.lower()
lower(s) == [i \in 1..Len(s) |-> lower_char(s[i])]

\* c in s
contains(s, c) == \E i \in 1..Len(s) : s[i] = c

\* s.rfind(c) scanning from position i down; 0 when c does not occur
RECURSIVE rfind(_, _, _)
rfind(s, c, i) ==
    IF i = 0 THEN 0
    ELSE IF s[i] = c THEN i
    ELSE rfind(s, c, i - 1)

\* s.rsplit(sep, 1): the list of at most two parts around the last sep
rsplit(s, sep) ==
    LET k == rfind(s, sep, Len(s))
    IN  IF k = 0 THEN <<s>>
        ELSE <<SubSeq(s, 1, k - 1), SubSeq(s, k + 1, Len(s))>>

\* s[:n]
slice_to(s, n) == SubSeq(s, 1, IF Len(s) < n THEN Len(s) ELSE n)

-----------------------------------------------------------------------------
(* Helper functions of app.py.                                              *)

\* get_file_extension without .lower()
get_file_extension_no_lower(filename) ==
    IF contains(filename, ".") THEN rsplit(filename, ".")[2] ELSE <<>>

\* get_file_extension(filename)
get_file_extension(filename) ==
    IF contains(filename, ".") THEN lower(rsplit(filename, ".")[2]) ELSE <<>>

\* the flattened "extensions" lists of get_supported_formats(), in order
all_extensions ==
    << <<"d", "o", "c", "x">>, <<"d", "o", "c">>, <<"p", "d", "f">>,
       <<"e", "p", "u", "b">>, <<"x", "l", "s", "x">>, <<"x", "l", "s">>,
       <<"p", "p", "t", "x">>, <<"p", "p", "t">> >>

\* s.find(c) scanning from position i up; 0 when c does not occur
RECURSIVE find(_, _, _)
find(s, c, i) ==
    IF i > Len(s) THEN 0
    ELSE IF s[i] = c THEN i
    ELSE find(s, c, i + 1)

\* file_name.split(".")[0] + ".md": cuts at the first "." instead of the last
md_file_name_first_dot(file_name) ==
    LET k == find(file_name, ".", 1)
    IN  (IF k = 0 THEN file_name ELSE SubSeq(file_name, 1, k - 1)) \o <<".", "m", "d">>

\* md_file_name = file_name.rsplit(".", 1)[0] + ".md"
md_file_name(file_name) ==
    rsplit(file_name, ".")[1] \o <<".", "m", "d">>

PreviewLimit == 2000

TruncationNotice ==
    <<".", ".", ".", "\n", "\n", "(", "P", "r", "e", "v", "i", "e",
      "w", " ", "t", "r", "u", "n", "c", "a", "t", "e", "d", ".",
      " ", "D", "o", "w", "n", "l", "o", "a", "d", " ", "t", "h",
      "e", " ", "f", "u", "l", "l", " ", "f", "i", "l", "e", " ",
      "t", "o", " ", "s", "e", "e", " ", "a", "l", "l", " ", "c",
      "o", "n", "t", "e", "n", "t", ".", ")">>

\* preview_content with >= in place of >
preview_content_ge(markdown_content) ==
    IF Len(markdown_content) >= PreviewLimit
    THEN slice_to(markdown_content, PreviewLimit) \o TruncationNotice
    ELSE slice_to(markdown_content, PreviewLimit)

\* preview_content of the Preview expander
preview_content(markdown_content) ==
    IF Len(markdown_content) > PreviewLimit
    THEN slice_to(markdown_content, PreviewLimit) \o TruncationNotice
    ELSE slice_to(markdown_content, PreviewLimit)

-----------------------------------------------------------------------------
(* The environment: filenames, payloads, converter results and faults.      *)

report_docx == <<"r", "e", "p", "o", "r", "t", ".", "d", "o", "c", "x">>
report_pdf == <<"r", "e", "p", "o", "r", "t", ".", "p", "d", "f">>
archive_tar_pdf ==
    <<"a", "r", "c", "h", "i", "v", "e", ".", "t", "a", "r", ".", "p", "d", "f">>
noext == <<"n", "o", "e", "x", "t">>

FileNames == {report_docx, report_pdf, noext}

\* st.file_uploader(type=all_extensions): the widget only hands over files
\* whose extension is in the list
Uploadable ==
    {n \in FileNames :
        \E k \in 1..Len(all_extensions) : get_file_extension(n) = all_extensions[k]}

Payloads == {"bytes"}

\* result.text_content of a conversion that did not fault
Texts == {<<>>, <<"#", " ", "A">>}

\* str(e) of the faults; an exception raised without arguments has str(e) = ""
Msgs == {"", "conversion failed"}

FaultKinds == {"create_fails", "write_fails", "convert_fails", "unlink_fails"}

\* what the calls outside the repository do in one adapter call
Outcomes ==
    {[kind |-> "ok", text |-> t, msg |-> ""] : t \in Texts}
    \cup {[kind |-> k, text |-> t, msg |-> m] :
            k \in FaultKinds, t \in {<<>>}, m \in Msgs}

Raised(o) == o.kind # "ok"

UploadedFile == [name : Uploadable, data : Payloads]

RECURSIVE SeqsUpTo(_, _)
SeqsUpTo(S, n) ==
    IF n = 0 THEN {<<>>}
    ELSE LET shorter == SeqsUpTo(S, n - 1)
         IN  shorter \cup {Append(s, x) : s \in {t \in shorter : Len(t) = n - 1}, x \in S}

Batches == SeqsUpTo(UploadedFile, MaxBatch)

NoError == [isNone |-> TRUE, str |-> ""]
ErrorStr(m) == [isNone |-> FALSE, str |-> m]

\* Python truthiness of the error slot: None and "" are both falsy
Truthy(error) == ~error.isNone /\ error.str # ""

-----------------------------------------------------------------------------
(* Converter adapter.                                                       *)

\* convert_file_to_markdown(file_data, filename) under outcome o: the tuple it
\* returns, the temporary files it created and those it left on disk
convert_file_to_markdown(file_data, filename, o) ==
    LET ext == get_file_extension(filename)
        tmp == [suffix |-> <<".">> \o ext,
                data |-> file_data]
    IN  CASE o.kind = "create_fails" ->
               [markdown_content |-> <<>>, error |-> ErrorStr(o.msg),
                created |-> EmptyBag, left |-> EmptyBag]
          [] o.kind \in {"write_fails", "convert_fails", "unlink_fails"} ->
               [markdown_content |-> <<>>, error |-> ErrorStr(o.msg),
                created |-> SetToBag({tmp}), left |-> SetToBag({tmp})]
          [] OTHER ->
               [markdown_content |-> o.text, error |-> NoError,
                created |-> SetToBag({tmp}), left |-> EmptyBag]

-----------------------------------------------------------------------------
(* Session store: a Python dict.                                            *)

Keys(d) == {d[i].name : i \in 1..Len(d)}

IndexOf(d, name) == CHOOSE i \in 1..Len(d) : d[i].name = name

\* d[name] = text
dict_set(d, name, text) ==
    IF name \in Keys(d)
    THEN [d EXCEPT ![IndexOf(d, name)].text = text]
    ELSE Append(d, [name |-> name, text |-> text])

-----------------------------------------------------------------------------
(* main(): one script run per interaction.                                  *)

ValidationError == [kind |-> "error", file |-> <<>>, text |-> "Please upload at least one file"]
ErrorNotice(name, error) == [kind |-> "error", file |-> name, text |-> error]
SuccessNotice(name) == [kind |-> "success", file |-> name, text |-> "successfully"]

\* a script run starts with an empty page
StartRun ==
    /\ notices' = <<>>
    /\ rendered' = <<>>
    /\ calls' = <<>>

\* The user changes the upload widget: the script reruns with the button not
\* pressed and goes straight to the results section.
Upload ==
    /\ pc = "Idle"
    /\ clicks < MaxClicks
    /\ UNCHANGED clicks
    /\ clicked' = FALSE
    /\ \E files \in Batches : uploaded_files' = files
    /\ StartRun
    /\ pc' = "Rendering"
    /\ UNCHANGED <<conversions, idx, tmpdir>>
    /\ UNCHANGED fnVars

\* Click without the "if not uploaded_files" branch: an empty batch runs the
\* (empty) loop and reports nothing
Click_NoValidation ==
    /\ pc = "Idle"
    /\ clicks < MaxClicks
    /\ clicks' = clicks + 1
    /\ clicked' = TRUE
    /\ rendered' = <<>>
    /\ calls' = <<>>
    /\ notices' = <<>>
    /\ IF uploaded_files = <<>>
       THEN pc' = "Rendering" /\ UNCHANGED idx
       ELSE pc' = "Converting" /\ idx' = 1
    /\ UNCHANGED <<conversions, uploaded_files, tmpdir>>
    /\ UNCHANGED fnVars

\* The user presses "Convert to Markdown".
Click ==
    /\ pc = "Idle"
    /\ clicks < MaxClicks
    /\ clicks' = clicks + 1
    /\ clicked' = TRUE
    /\ rendered' = <<>>
    /\ calls' = <<>>
    /\ IF uploaded_files = <<>>
       THEN /\ notices' = <<ValidationError>>
            /\ pc' = "Rendering"
            /\ UNCHANGED idx
       ELSE /\ notices' = <<>>
            /\ pc' = "Converting"
            /\ idx' = 1
    /\ UNCHANGED <<conversions, uploaded_files, tmpdir>>
    /\ UNCHANGED fnVars

\* where the script stands after the iteration for uploaded_files[idx]: the
\* loop has no break, so the result of the file does not matter
loop_next_break_on_error(error) ==
    IF idx < Len(uploaded_files) /\ ~Truthy(error) THEN "Converting" ELSE "Rendering"

loop_next(error) ==
    IF idx < Len(uploaded_files) THEN "Converting" ELSE "Rendering"

\* One iteration of "for uploaded_file in uploaded_files".
ConvertFile ==
    /\ pc = "Converting"
    /\ \E o \in Outcomes :
          LET uploaded_file == uploaded_files[idx]
              r == convert_file_to_markdown(uploaded_file.data, uploaded_file.name, o)
          IN  /\ tmpdir' = tmpdir (+) r.left
              /\ calls' = Append(calls, [name |-> uploaded_file.name,
                                         raised |-> Raised(o),
                                         text |-> o.text,
                                         created |-> BagCardinality(r.created),
                                         left |-> BagCardinality(r.left)])
              /\ IF Truthy(r.error)
                 THEN /\ notices' = Append(notices, ErrorNotice(uploaded_file.name, r.error.str))
                      /\ UNCHANGED conversions
                 ELSE /\ conversions' = dict_set(conversions, uploaded_file.name,
                                                 r.markdown_content)
                      /\ notices' = Append(notices, SuccessNotice(uploaded_file.name))
              /\ pc' = loop_next(r.error)
              /\ idx' = IF pc' = "Converting" THEN idx + 1 ELSE idx
    /\ UNCHANGED <<uploaded_files, rendered, clicks, clicked>>
    /\ UNCHANGED fnVars

\* the widgets of one entry of the results section
render_entry(file_name, markdown_content) ==
    LET md == md_file_name(file_name)
    IN  [subheader |-> file_name,
         file_name |-> md,
         data |-> markdown_content,
         download_key |-> <<"d", "o", "w", "n", "l", "o", "a", "d", "_">> \o md,
         preview |-> preview_content(markdown_content),
         preview_key |-> <<"p", "r", "e", "v", "i", "e", "w", "_">> \o md]

\* The results section: one container per stored entry, in dict order.
Render ==
    /\ pc = "Rendering"
    /\ rendered' = [i \in 1..Len(conversions) |->
                       render_entry(conversions[i].name, conversions[i].text)]
    /\ pc' = "Idle"
    /\ UNCHANGED <<conversions, uploaded_files, idx, notices, tmpdir, calls, clicks, clicked>>
    /\ UNCHANGED fnVars

\* the application after construction: line 78-79 creates the empty dict
AppInit ==
    /\ conversions = <<>>
    /\ uploaded_files = <<>>
    /\ pc = "Idle"
    /\ idx = 1
    /\ notices = <<>>
    /\ rendered = <<>>
    /\ tmpdir = EmptyBag
    /\ calls = <<>>
    /\ clicks = 0
    /\ clicked = FALSE

FnIdle ==
    /\ fn_in = <<>>
    /\ fn_out = <<>>
    /\ fn_done = FALSE

Init == AppInit /\ FnIdle

Next == Upload \/ Click \/ ConvertFile \/ Render

Spec == Init /\ [][Next]_vars

-----------------------------------------------------------------------------
(* Function harnesses: the inputs are drawn from bounded sets and one       *)
(* action applies the function.                                             *)

NameAlphabet == {"a", "B", "."}

Names == SeqsUpTo(NameAlphabet, MaxNameLen)

\* get_file_extension applied to any filename
InitExt ==
    /\ AppInit
    /\ fn_in \in Names
    /\ fn_out = <<>>
    /\ fn_done = FALSE

ApplyExt ==
    /\ ~fn_done
    /\ fn_out' = get_file_extension(fn_in)
    /\ fn_done' = TRUE
    /\ UNCHANGED fn_in
    /\ UNCHANGED appVars

SpecExt == InitExt /\ [][ApplyExt]_vars

TextAlphabet == <<"#", " ", "x">>

PatternText(n, p, q) ==
    [i \in 1..n |-> TextAlphabet[((i * p + q) % Len(TextAlphabet)) + 1]]

PreviewLens ==
    {0, 1, 1500, 2500} \cup ((PreviewLimit - MaxOver)..(PreviewLimit + MaxOver))

PreviewTexts ==
    {PatternText(n, p, q) : n \in PreviewLens, p \in 0..2, q \in 0..2}

\* the preview of any stored markdown text
InitPreview ==
    /\ AppInit
    /\ fn_in \in PreviewTexts
    /\ fn_out = <<>>
    /\ fn_done = FALSE

ApplyPreview ==
    /\ ~fn_done
    /\ fn_out' = preview_content(fn_in)
    /\ fn_done' = TRUE
    /\ UNCHANGED fn_in
    /\ UNCHANGED appVars

SpecPreview == InitPreview /\ [][ApplyPreview]_vars

\* the results section over any dict of at most two entries
HarnessStores ==
    {<<>>}
    \cup {<<[name |-> n, text |-> t]>> : n \in Names, t \in Texts}
    \cup {<<[name |-> q[1], text |-> <<"#", " ", "A">>], [name |-> q[2], text |-> <<>>]>> :
            q \in {r \in Names \X Names : r[1] # r[2]}}

InitRender ==
    /\ conversions \in HarnessStores
    /\ uploaded_files = <<>>
    /\ pc = "Rendering"
    /\ idx = 1
    /\ notices = <<>>
    /\ rendered = <<>>
    /\ tmpdir = EmptyBag
    /\ calls = <<>>
    /\ clicks = 0
    /\ clicked = FALSE
    /\ FnIdle

SpecRender == InitRender /\ [][Render]_vars

-----------------------------------------------------------------------------
(* Properties.                                                              *)

IsCall == Len(calls') = Len(calls) + 1
LastCall == calls'[Len(calls')]

\* C1: every adapter call creates one temporary file (none only when creating
\* it is the step that raises) and has removed it when it returns, whether the
\* conversion succeeds or any step raises; no temporary file of the adapter
\* remains after any sequence of calls.
C1_TempFileCreatedAndRemoved ==
    /\ tmpdir = EmptyBag
    /\ \A i \in 1..Len(calls) : calls[i].created <= 1 /\ calls[i].left = 0

\* C2: when the conversion of a file faults, whatever str(e) is (the empty
\* string included), an error notice naming the file is emitted, no success
\* notice is emitted for it, and the session store is left as it was.
C2_FaultIsReportedAndIsolated ==
    [][(IsCall /\ LastCall.raised)
        => /\ conversions' = conversions
           /\ Len(notices') = Len(notices) + 1
           /\ notices'[Len(notices')].kind = "error"
           /\ notices'[Len(notices')].file = LastCall.name]_vars

\* the files of the current batch that have been handled so far
Handled == IF pc = "Converting" THEN idx - 1 ELSE Len(uploaded_files)

\* C3: a convert click with a batch of n > 0 files hands every file to the
\* adapter in upload order, is never stuck before the end of the batch, and
\* emits exactly one notice (success or error) per file, in file order, so n
\* notices by the end of the batch.
C3_OneNoticePerFileInOrder ==
    (clicked /\ uploaded_files # <<>>)
    => /\ Len(calls) = Handled
       /\ Len(notices) = Handled
       /\ \A i \in 1..Handled :
             /\ calls[i].name = uploaded_files[i].name
             /\ notices[i].file = uploaded_files[i].name
             /\ notices[i].kind \in {"success", "error"}
       /\ pc = "Converting" => (idx \in 1..Len(uploaded_files) /\ ENABLED ConvertFile)

C3_Witness ==
    /\ clicked
    /\ pc = "Idle"
    /\ Len(uploaded_files) = 2
    /\ Len(notices) = 2
    /\ calls[1].raised
    /\ notices[1].kind = "error"
    /\ notices[2].kind = "success"

\* what the results section shows for the dict d
ShowsAll(widgets, d) ==
    /\ Len(widgets) = Len(d)
    /\ \A i \in 1..Len(d) :
          widgets[i].subheader = d[i].name /\ widgets[i].data = d[i].text

C5_LatestSuccessInInsertionOrder ==
    [][/\ \A i, j \in 1..Len(conversions') :
             conversions'[i].name = conversions'[j].name => i = j
       /\ Len(conversions) <= Len(conversions')
       /\ \A i \in 1..Len(conversions) : conversions'[i].name = conversions[i].name
       /\ \A i \in 1..Len(conversions') :
             IF IsCall /\ LastCall.name = conversions'[i].name /\ ~LastCall.raised
             THEN conversions'[i].text = LastCall.text
             ELSE i <= Len(conversions) /\ conversions'[i].text = conversions[i].text]_vars

\* C6: the store only grows, changes only while the script is converting,
\* its keys are uploaded filenames, and a key appears only by a conversion of
\* that filename that succeeded.
C6_StoreGrowsOnlyBySuccess ==
    [][/\ Keys(conversions) \subseteq Keys(conversions')
       /\ pc # "Converting" => conversions' = conversions
       /\ Keys(conversions') \subseteq Uploadable
       /\ \A k \in Keys(conversions') \ Keys(conversions) :
             IsCall /\ LastCall.name = k /\ ~LastCall.raised]_vars

DotsOf(s) == {k \in 1..Len(s) : s[k] = "."}

\* m is n with the part after the last "." replaced by "md", or n followed by
\* ".md" when n holds no "."
IsMdNameOf(n, m) ==
    /\ Len(m) >= 3
    /\ SubSeq(m, Len(m) - 2, Len(m)) = <<".", "m", "d">>
    /\ LET stem == SubSeq(m, 1, Len(m) - 3)
       IN  IF DotsOf(n) = {}
           THEN stem = n
           ELSE /\ Len(stem) + 1 \in DotsOf(n)
                /\ \A k \in DotsOf(n) : k <= Len(stem) + 1
                /\ stem = SubSeq(n, 1, Len(stem))

report_md == <<"r", "e", "p", "o", "r", "t", ".", "m", "d">>
archive_tar_md == <<"a", "r", "c", "h", "i", "v", "e", ".", "t", "a", "r", ".", "m", "d">>
noext_md == <<"n", "o", "e", "x", "t", ".", "m", "d">>

C8_PreviewTruncation ==
    fn_done
    => IF Len(fn_in) <= 2000
       THEN fn_out = fn_in
       ELSE /\ Len(fn_out) = 2000 + Len(TruncationNotice)
            /\ \A i \in 1..2000 : fn_out[i] = fn_in[i]
            /\ \A j \in 1..Len(TruncationNotice) : fn_out[2000 + j] = TruncationNotice[j]

C8_Witness ==
    /\ fn_done
    /\ Len(fn_in) = 2001
    /\ Len(fn_out) = 2000 + Len(TruncationNotice)
    /\ fn_in[2001] = "x"

\* d is the lowercase form of the character c
IsLowerOf(c, d) ==
    IF \E k \in 1..Len(UpperCase) : UpperCase[k] = c
    THEN \E k \in 1..Len(UpperCase) : UpperCase[k] = c /\ LowerCase[k] = d
    ELSE d = c

A_tar_PDF == <<"A", ".", "t", "a", "r", ".", "P", "D", "F">>

\* C9: get_file_extension gives the empty string for a filename without "."
\* and otherwise the lowercased part after the last "." (the empty string for
\* a name that ends in ".", "pdf" for A.tar.PDF).
C9_FileExtension ==
    /\ fn_done
       => IF DotsOf(fn_in) = {}
          THEN fn_out = <<>>
          ELSE LET k == Len(fn_in) - Len(fn_out)
               IN  /\ k \in DotsOf(fn_in)
                   /\ \A j \in DotsOf(fn_in) : j <= k
                   /\ \A j \in 1..Len(fn_out) : IsLowerOf(fn_in[k + j], fn_out[j])
    /\ get_file_extension(A_tar_PDF) = <<"p", "d", "f">>
    /\ get_file_extension(<<"a", ".">>) = <<>>

C9_Witness ==
    /\ fn_done
    /\ Cardinality(DotsOf(fn_in)) = 2
    /\ fn_in[Len(fn_in)] = "B"
    /\ fn_out = <<"b">>

\* C10: the download names derived for the stored entries are pairwise
\* distinct, and so are the widget keys download_<name> and preview_<name>.
C10_DistinctWidgetKeys ==
    \A i, j \in 1..Len(rendered) :
        i # j => /\ rendered[i].file_name # rendered[j].file_name
                 /\ rendered[i].download_key # rendered[j].download_key
                 /\ rendered[i].preview_key # rendered[j].preview_key

====
